---- MODULE Spec2Model ----
(***************************************************************************)
(* Model of Brokkr.EventSystem's EventManager (include/EventManager.h):    *)
(* the handler registry m_handlers, the event queue m_eventQueue and the   *)
(* drain loop ProcessEvents, with handler callbacks that may re-enter the  *)
(* manager (PushEvent, AddHandler, RemoveHandler).                         *)
(***************************************************************************)
EXTENDS Integers, Sequences, FiniteSets, TLC

\* ---------------------------------------------------------------- bounds
MaxEvents == 2            \* PushEvent calls in one behaviour
MaxRegOps == 3            \* AddHandler/RemoveHandler calls in one behaviour
MaxHandlerPriority == 2   \* handler priorities are 1..MaxHandlerPriority
MaxEventPriority == 2     \* event priorities are 1..MaxEventPriority

\* ---------------------------------------------------------------- values
Keys == {1, 2}
HandlerPriorities == 1..MaxHandlerPriority
EventPriorities == 1..MaxEventPriority
EventIds == 1..MaxEvents

\* The callables wrapped in std::function: two free functions of the same
\* signature and one lambda.
Callbacks == {"OnPlayerDied", "OnPlayerMoved", "lambda"}

\* std::function::target_type(): both free functions are stored as the
\* same pointer type void(*)(const Event&); the lambda has its own closure
\* type.  The numbers stand for the position of the type in the
\* type_info::before order.
target_type(f) == IF f = "lambda" THEN 2 ELSE 1

\* using EventHandler = std::pair<int, std::function<void(const Event&)>>
EventHandler == [first : HandlerPriorities, second : Callbacks]
NoHandler == [first |-> 0, second |-> "none"]

\* An Event as the manager sees it: GetType(), GetPriorityLevel(); id names
\* the instance (the copy PushEvent stored).
Event == [id : EventIds, type : Keys, priority : EventPriorities]
NoEvent == [id |-> 0, type |-> 0, priority |-> 0]
\* what a read through a dangling reference may yield besides a real event
Garbage == [id |-> -1, type |-> 0, priority |-> 0]

\* ------------------------------------------------------------ comparers
\* mutant: the priority test turned round (lower priorities first)
EventHandlerComparer_Ascending(left, right) ==
    IF left.first # right.first
    THEN left.first < right.first
    ELSE target_type(left.second) < target_type(right.second)

EventHandlerComparer(left, right) ==
    IF left.first # right.first
    THEN left.first > right.first
    ELSE target_type(left.second) < target_type(right.second)

\* mutant: the comparison turned round (a min-heap)
EventComparer_Greater(left, right) == left.priority > right.priority

EventComparer(left, right) == left.priority < right.priority

\* ------------------------------------------------- std::set<EventHandler>
\* equivalence induced by the comparer: neither orders before the other
Equivalent(a, b) == ~EventHandlerComparer(a, b) /\ ~EventHandlerComparer(b, a)

\* mutant: a multiset-like insert that keeps equivalent handlers apart
SetInsert_Always(S, h) == S \cup {h}

SetInsert(S, h) == IF \E x \in S : Equivalent(x, h) THEN S ELSE S \cup {h}

\* mutant: erase matches on the callable's type only, not on the priority
SetErase_ByType(S, h) == {x \in S : target_type(x.second) # target_type(h.second)}

\* mutant: erase matches on the priority only, not on the callable's type
SetErase_ByPriority(S, h) == {x \in S : x.first # h.first}

SetErase(S, h) == {x \in S : ~Equivalent(x, h)}

\* begin(): the element no other element orders before; NoHandler is end()
SetBegin(S) ==
    IF S = {} THEN NoHandler
    ELSE CHOOSE x \in S : \A y \in S : ~EventHandlerComparer(y, x)

\* operator++ on an iterator at x: the least element ordered after x
SetNext(S, x) ==
    LET after == {y \in S : EventHandlerComparer(x, y)}
    IN  SetBegin(after)

\* the handlers of S in iteration order
RECURSIVE SetSeq(_)
SetSeq(S) == IF S = {} THEN <<>> ELSE <<SetBegin(S)>> \o SetSeq(S \ {SetBegin(S)})

\* --------------------------------------- std::priority_queue<Event, ...>
\* top |-> c.front(), rest |-> the other elements of the heap vector
EmptyQueue == [top |-> NoEvent, rest |-> {}]

QueueEmpty(q) == q.top = NoEvent

QueueElems(q) == IF q.top = NoEvent THEN {} ELSE {q.top} \cup q.rest

\* e may stand at the front of a heap holding S: nothing compares above it
IsTop(S, e) == e \in S /\ \A x \in S : ~EventComparer(e, x)

\* mutant: the new element overwrites the front instead of being added
QueuePush_Overwrite(q, e) == [top |-> e, rest |-> q.rest]

\* push(): push_back + push_heap.  push_heap sifts the new element up while
\* comp(parent, new) holds, so it reaches the front exactly when the old
\* front compares below it; an equal priority leaves the front in place.
QueuePush(q, e) ==
    IF QueueEmpty(q) THEN [top |-> e, rest |-> {}]
    ELSE IF EventComparer(q.top, e)
         THEN [top |-> e, rest |-> QueueElems(q)]
         ELSE [top |-> q.top, rest |-> q.rest \cup {e}]

\* pop(): pop_heap + pop_back removes the front; any remaining element of
\* highest priority may become the new front
QueuePop(q) ==
    IF q.rest = {} THEN {EmptyQueue}
    ELSE {[top |-> t, rest |-> q.rest \ {t}] : t \in {x \in q.rest : IsTop(q.rest, x)}}

\* ------------------------------------------------- uint32_t arithmetic
\* A uint32_t is <<hi, lo>>, its two 16-bit halves; every operation is
\* modulo 2^32 and no intermediate value reaches 2^31.
uint32(n) == <<(n \div 65536) % 65536, n % 65536>>

RECURSIVE BitXor(_, _, _)
BitXor(a, b, n) ==
    IF n = 0 THEN 0 ELSE ((a + b) % 2) + 2 * BitXor(a \div 2, b \div 2, n - 1)

RECURSIVE BitOr(_, _, _)
BitOr(a, b, n) ==
    IF n = 0 THEN 0
    ELSE (IF (a % 2) + (b % 2) > 0 THEN 1 ELSE 0) + 2 * BitOr(a \div 2, b \div 2, n - 1)

\* x ^ y and x | y
Xor(x, y) == <<BitXor(x[1], y[1], 16), BitXor(x[2], y[2], 16)>>
Or(x, y) == <<BitOr(x[1], y[1], 16), BitOr(x[2], y[2], 16)>>

\* the low and the high 16 bits of a * b, for a and b below 2^16
MulLow16(a, b) == ((a % 256) * b + (((a \div 256) * b) % 256) * 256) % 65536
MulHigh16(a, b) ==
    ((a % 256) * b + (((a \div 256) * b) % 256) * 256) \div 65536
        + ((a \div 256) * b) \div 256

\* x * y and x + y
Mul(x, y) ==
    <<(MulHigh16(x[2], y[2]) + MulLow16(x[1], y[2]) + MulLow16(x[2], y[1])) % 65536,
      MulLow16(x[2], y[2])>>
Add(x, y) == <<(x[1] + y[1] + (x[2] + y[2]) \div 65536) % 65536, (x[2] + y[2]) % 65536>>

\* x << n and x >> n, for 0 < n < 32
ShiftLeft(x, n) ==
    IF n >= 16 THEN <<(x[2] % (2^(32 - n))) * 2^(n - 16), 0>>
    ELSE <<(x[1] % (2^(16 - n))) * 2^n + x[2] \div (2^(16 - n)),
           (x[2] % (2^(16 - n))) * 2^n>>
ShiftRight(x, n) ==
    IF n >= 16 THEN <<0, x[1] \div (2^(n - 16))>>
    ELSE <<x[1] \div (2^n), x[2] \div (2^n) + (x[1] % (2^n)) * 2^(16 - n)>>

\* #define CIRCULAR_SHIFT_LEFT_32_BITS(x, r) ((x << r) | (x >> (32 - r)))
CIRCULAR_SHIFT_LEFT_32_BITS(x, r) == Or(ShiftLeft(x, r), ShiftRight(x, 32 - r))

\* ------------------------------------------------------ Hash::Murmur3Hash
kC1 == <<\Hcc9e, \H2d51>>     \* 0xcc9e2d51
kC2 == <<\H1b87, \H3593>>     \* 0x1b873593

\* blocks[i] for i in -nblocks..-1: the uint32_t read at data + 4*(nblocks+i)
\* in the byte order of the target (x86/x64: the first byte is the lowest).
\* key is the byte sequence data[0..], indexed from 1.
Block(key, nblocks, i) ==
    LET at == 4 * (nblocks + i)
    IN  <<key[at + 3] + 256 * key[at + 4], key[at + 1] + 256 * key[at + 2]>>

\* k *= kC1; k = CIRCULAR_SHIFT_LEFT_32_BITS(k, 15); k *= kC2;
MixK(k) == Mul(CIRCULAR_SHIFT_LEFT_32_BITS(Mul(k, kC1), 15), kC2)

\* for (int i = -nblocks; i; i++) { ... }: the value of hash after the loop
RECURSIVE BlockLoop(_, _, _, _)
BlockLoop(key, nblocks, i, hash) ==
    IF i = 0 THEN hash
    ELSE LET k == MixK(Block(key, nblocks, i))
             h1 == Xor(hash, k)
             h2 == CIRCULAR_SHIFT_LEFT_32_BITS(h1, 13)
             h3 == Add(Mul(h2, uint32(5)), <<\He654, \H6b64>>)
         IN  BlockLoop(key, nblocks, i + 1, h3)

\* mutant: the tail word gets the block loop's rotate and *5 + 0xe6546b64 too
TailSwitch_Finalised(key, len, hash) ==
    LET nblocks == len \div 4
        k == IF len % 4 = 0 THEN uint32(0)
             ELSE <<IF len % 4 = 3 THEN key[nblocks * 4 + 3] ELSE 0,
                    key[nblocks * 4 + 1]
                        + (IF len % 4 >= 2 THEN 256 * key[nblocks * 4 + 2] ELSE 0)>>
    IN  IF len % 4 = 0 THEN hash
        ELSE Add(Mul(CIRCULAR_SHIFT_LEFT_32_BITS(Xor(hash, MixK(k)), 13), uint32(5)),
                 <<\He654, \H6b64>>)

\* switch (len & 3) with its fall-through: the value of hash after it.
\* tail[j] is key[nblocks*4 + j + 1].
TailSwitch(key, len, hash) ==
    LET nblocks == len \div 4
        k0 == uint32(0)
        k3 == IF len % 4 = 3
              THEN Xor(k0, ShiftLeft(uint32(key[nblocks * 4 + 3]), 16)) ELSE k0
        k2 == IF len % 4 >= 2
              THEN Xor(k3, ShiftLeft(uint32(key[nblocks * 4 + 2]), 8)) ELSE k3
        k1 == Xor(k2, uint32(key[nblocks * 4 + 1]))
    IN  IF len % 4 = 0 THEN hash ELSE Xor(hash, MixK(k1))

\* static uint32_t FMix(uint32_t hash)
FMix(hash) ==
    LET h1 == Xor(hash, ShiftRight(hash, 16))
        h2 == Mul(h1, <<\H85eb, \Hca6b>>)
        h3 == Xor(h2, ShiftRight(h2, 13))
        h4 == Mul(h3, <<\Hc2b2, \Hae35>>)
    IN  Xor(h4, ShiftRight(h4, 16))

\* static uint32_t Murmur3Hash(const void* key, const size_t len, const uint32_t seed)
Murmur3Hash(key, len, seed) ==
    LET nblocks == len \div 4
        afterBlocks == BlockLoop(key, nblocks, -nblocks, seed)
        afterTail == TailSwitch(key, len, afterBlocks)
    IN  FMix(Xor(afterTail, uint32(len)))

\* ----------------------------------------------------------------- state
VARIABLES
    m_handlers,     \* unordered_map: key -> set of EventHandler (DOMAIN = keys present)
    m_eventQueue,   \* the priority queue
    pc,             \* "idle" | "loop" | "iter" | "pop" | "crashed"
    event,          \* ProcessEvents: the event `event` was bound to by top()
    refStale,       \* ProcessEvents: a push happened since `event` was bound
    it,             \* ProcessEvents: the handler the range-for iterator is at
    nextId,         \* number of PushEvent calls so far + 1
    regOps,         \* number of AddHandler/RemoveHandler calls so far
    lastOp,         \* the call or step that produced the current state
    owed,           \* <<key, handler>> pairs added and not removed since
    called,         \* handlers invoked (with their argument) in the current dispatch
    drainLog,       \* events dispatched by the current/last ProcessEvents call, in order
    dispatchCount,  \* per event instance: number of dispatches
    handlersAtCall, \* m_handlers when the current/last ProcessEvents was called
    pushedInDrain,  \* a callback called PushEvent during this ProcessEvents
    editedInDrain,  \* a callback called Add/RemoveHandler during this ProcessEvents
    editedInDispatch, \* ... during the current dispatch
    queuedAtCall,   \* size of the queue when the current/last ProcessEvents was called
    nameArg,        \* the eventTypeString of the last AddHandler/RemoveHandler call
    builtFrom,      \* per event instance: the name its EventType was built from
    hashCall,       \* a call of Hash::Murmur3Hash: its arguments and its result
    payloads,       \* one Event's payload components and the last component call
    runs            \* two ProcessEvents runs set side by side and their outcomes

vars == <<m_handlers, m_eventQueue, pc, event, refStale, it, nextId, regOps,
          lastOp, owed, called, drainLog, dispatchCount, handlersAtCall,
          pushedInDrain, editedInDrain, editedInDispatch, queuedAtCall,
          nameArg, builtFrom, hashCall, payloads, runs>>

\* found: insert()/erase() met an element equivalent to the handler passed
Op(name, k, h, e, f) == [op |-> name, key |-> k, handler |-> h, ev |-> e, found |-> f]

\* the eventTypeString of a call of a key overload, which has none; every
\* event name is a sequence of bytes
NoName == <<-1>>

\* no Murmur3Hash call is in progress
NoHashCall == [key |-> <<>>, seed |-> uint32(0), pending |-> FALSE, ret |-> uint32(0)]

\* an Event without components on which no component call was made:
\* components holds [type, instance] entries, log the calls made so far,
\* added and got what the last AddComponent resp. GetComponent returned
NoPayloads == [components |-> {}, log |-> <<>>, added |-> FALSE, got |-> 0]

\* no two runs are set side by side
NoRuns == [pending |-> FALSE, compared |-> FALSE]

\* the EventManager after construction
ManagerInit ==
    /\ m_handlers = <<>>
    /\ m_eventQueue = EmptyQueue
    /\ pc = "idle"
    /\ event = NoEvent
    /\ refStale = FALSE
    /\ it = NoHandler
    /\ nextId = 1
    /\ regOps = 0
    /\ lastOp = Op("init", 0, NoHandler, NoEvent, FALSE)
    /\ owed = {}
    /\ called = <<>>
    /\ drainLog = <<>>
    /\ dispatchCount = [i \in EventIds |-> 0]
    /\ handlersAtCall = <<>>
    /\ pushedInDrain = FALSE
    /\ editedInDrain = FALSE
    /\ editedInDispatch = FALSE
    /\ queuedAtCall = 0
    /\ nameArg = NoName
    /\ builtFrom = [i \in EventIds |-> NoName]

Init ==
    /\ ManagerInit
    /\ hashCall = NoHashCall
    /\ payloads = NoPayloads
    /\ runs = NoRuns

\* a call of the key overload of AddHandler or RemoveHandler: no name is
\* passed, no event is built, no hash or component call is part of it
KeyForm ==
    /\ nameArg' = NoName
    /\ UNCHANGED <<builtFrom, hashCall, payloads, runs>>

\* a step that is no AddHandler or RemoveHandler call
NoRegistryCall == UNCHANGED <<nameArg, builtFrom, hashCall, payloads, runs>>

\* ------------------------------------------------- registry operations
\* m_handlers[eventHash].insert(handler): operator[] creates the key
DoAddHandler(reg, eventHash, handler) ==
    IF eventHash \in DOMAIN reg
    THEN [reg EXCEPT ![eventHash] = SetInsert(@, handler)]
    ELSE (eventHash :> SetInsert({}, handler)) @@ reg

\* find(eventHash) != end()  =>  handlers.erase(handler)
DoRemoveHandler(reg, eventHash, handler) ==
    IF eventHash \in DOMAIN reg
    THEN [reg EXCEPT ![eventHash] = SetErase(@, handler)]
    ELSE reg

\* mutant: the lookup ignores the key and yields every registered handler
HandlersOf_AnyKey(reg, key) == UNION {reg[k] : k \in DOMAIN reg}

\* the set the dispatch iterates: m_handlers.find(key)->second, {} if absent
HandlersOf(reg, key) == IF key \in DOMAIN reg THEN reg[key] ELSE {}

\* ------------------------------------------------------ calls from outside
\* A call from outside a drain leaves the drain's state alone; the record of
\* the last drain (drainLog, handlersAtCall and the two flags) ends with it.
DrainIdle ==
    /\ drainLog' = <<>>
    /\ handlersAtCall' = <<>>
    /\ pushedInDrain' = FALSE
    /\ editedInDrain' = FALSE
    /\ queuedAtCall' = 0
    /\ UNCHANGED <<pc, event, refStale, it, called, dispatchCount, editedInDispatch>>

\* an equivalent element is in the set registered under key
Found(reg, key, handler) == \E x \in HandlersOf(reg, key) : Equivalent(x, handler)

OweAdd(eventHash, handler) == owed \cup {<<eventHash, handler>>}

OweRemove(eventHash, handler) ==
    {w \in owed : ~(w[1] = eventHash /\ Equivalent(w[2], handler))}

\* void AddHandler(uint32_t eventHash, const EventHandler& handler): what
\* the call does to the manager, whoever makes it
AddHandlerBody(eventHash, handler) ==
    /\ pc = "idle"
    /\ regOps < MaxRegOps
    /\ m_handlers' = DoAddHandler(m_handlers, eventHash, handler)
    /\ regOps' = regOps + 1
    /\ lastOp' = Op("AddHandler", eventHash, handler, NoEvent,
                    Found(m_handlers, eventHash, handler))
    /\ owed' = OweAdd(eventHash, handler)
    /\ DrainIdle
    /\ UNCHANGED <<m_eventQueue, nextId>>

\* the key overload called from outside
AddHandler(eventHash, handler) ==
    /\ AddHandlerBody(eventHash, handler)
    /\ KeyForm

\* void RemoveHandler(uint32_t eventHash, const EventHandler& handler)
RemoveHandlerBody(eventHash, handler) ==
    /\ pc = "idle"
    /\ regOps < MaxRegOps
    /\ m_handlers' = DoRemoveHandler(m_handlers, eventHash, handler)
    /\ regOps' = regOps + 1
    /\ lastOp' = Op("RemoveHandler", eventHash, handler, NoEvent,
                    Found(m_handlers, eventHash, handler))
    /\ owed' = OweRemove(eventHash, handler)
    /\ DrainIdle
    /\ UNCHANGED <<m_eventQueue, nextId>>

RemoveHandler(eventHash, handler) ==
    /\ RemoveHandlerBody(eventHash, handler)
    /\ KeyForm

\* void PushEvent(const Event& event), event having the given key and priority
PushEventBody(type, priority) ==
    /\ pc = "idle"
    /\ nextId <= MaxEvents
    /\ LET e == [id |-> nextId, type |-> type, priority |-> priority]
       IN  /\ m_eventQueue' = QueuePush(m_eventQueue, e)
           /\ lastOp' = Op("PushEvent", type, NoHandler, e, FALSE)
    /\ nextId' = nextId + 1
    /\ DrainIdle
    /\ UNCHANGED <<m_handlers, regOps, owed>>

PushEvent(type, priority) ==
    /\ PushEventBody(type, priority)
    /\ NoRegistryCall

\* ----------------------------------------------------------- ProcessEvents
\* the call: control reaches the head of the while loop
ProcessEvents ==
    /\ pc = "idle"
    /\ pc' = "loop"
    /\ handlersAtCall' = m_handlers
    /\ drainLog' = <<>>
    /\ called' = <<>>
    /\ pushedInDrain' = FALSE
    /\ editedInDrain' = FALSE
    /\ editedInDispatch' = FALSE
    /\ lastOp' = Op("ProcessEvents", 0, NoHandler, NoEvent, FALSE)
    /\ queuedAtCall' = Cardinality(QueueElems(m_eventQueue))
    /\ NoRegistryCall
    /\ UNCHANGED <<m_handlers, m_eventQueue, event, refStale, it, nextId, regOps,
                   owed, dispatchCount>>

\* mutant: `if` for `while`: the call returns after the first dispatch
Return_AfterOne ==
    /\ pc = "loop"
    /\ QueueEmpty(m_eventQueue) \/ Len(drainLog) >= 1
    /\ pc' = "idle"
    /\ lastOp' = Op("Return", 0, NoHandler, NoEvent, FALSE)
    /\ NoRegistryCall
    /\ UNCHANGED <<m_handlers, m_eventQueue, event, refStale, it, nextId, regOps,
                   owed, called, drainLog, dispatchCount, handlersAtCall,
                   pushedInDrain, editedInDrain, editedInDispatch, queuedAtCall>>

\* mutant: the loop runs over the events queued at the call only
Return_AfterQueued ==
    /\ pc = "loop"
    /\ QueueEmpty(m_eventQueue) \/ Len(drainLog) >= queuedAtCall
    /\ pc' = "idle"
    /\ lastOp' = Op("Return", 0, NoHandler, NoEvent, FALSE)
    /\ NoRegistryCall
    /\ UNCHANGED <<m_handlers, m_eventQueue, event, refStale, it, nextId, regOps,
                   owed, called, drainLog, dispatchCount, handlersAtCall,
                   pushedInDrain, editedInDrain, editedInDispatch, queuedAtCall>>

\* while (!m_eventQueue.empty()) fails: the call returns
Return ==
    /\ pc = "loop"
    /\ QueueEmpty(m_eventQueue)
    /\ pc' = "idle"
    /\ lastOp' = Op("Return", 0, NoHandler, NoEvent, FALSE)
    /\ NoRegistryCall
    /\ UNCHANGED <<m_handlers, m_eventQueue, event, refStale, it, nextId, regOps,
                   owed, called, drainLog, dispatchCount, handlersAtCall,
                   pushedInDrain, editedInDrain, editedInDispatch, queuedAtCall>>

\* The records kept of a drain stop growing after MaxEvents + 1 dispatches.
\* A drain pops once per dispatch and at most MaxEvents events are pushed
\* by PushEvent and InvokePush, so this is reached only by a drain whose
\* callbacks push without end (InvokeRepush).
Counted(n) == IF n > MaxEvents + 1 THEN MaxEvents + 1 ELSE n
Logged(log, e) == IF Len(log) > MaxEvents THEN log ELSE Append(log, e)

\* const Event& event = m_eventQueue.top(); m_handlers.find(event.GetType());
\* the range-for starts at handlers.begin()
BeginDispatch ==
    /\ pc = "loop"
    /\ ~QueueEmpty(m_eventQueue)
    /\ LET e == m_eventQueue.top
           first == SetBegin(HandlersOf(m_handlers, e.type))
       IN  /\ event' = e
           /\ it' = first
           /\ pc' = IF first = NoHandler THEN "pop" ELSE "iter"
           /\ dispatchCount' = [dispatchCount EXCEPT ![e.id] = Counted(@ + 1)]
           /\ drainLog' = Logged(drainLog, e)
           /\ lastOp' = Op("BeginDispatch", e.type, NoHandler, e, FALSE)
    /\ refStale' = FALSE
    /\ called' = <<>>
    /\ editedInDispatch' = FALSE
    /\ NoRegistryCall
    /\ UNCHANGED <<m_handlers, m_eventQueue, nextId, regOps, owed, handlersAtCall,
                   pushedInDrain, editedInDrain, queuedAtCall>>

\* What handler.second(event) receives.  `event` refers to the front slot of
\* the queue's vector: once a callback has pushed, the slot may hold the new
\* front, or the vector was reallocated and the reference dangles.
ArgSeen ==
    IF refStale THEN {event, m_eventQueue.top, Garbage} ELSE {event}

\* ++iterator and the loop test, with the set as the callback left it.  The
\* results are <<pc', it'>>.  If the callback erased the node the iterator is
\* at, the increment reads a freed node: the loop may stop, go on from any
\* later node, or the program faults.
Advance(reg) ==
    LET live == HandlersOf(reg, event.type)
    IN  IF it \in live
        THEN LET n == SetNext(live, it)
             IN  {<<IF n = NoHandler THEN "pop" ELSE "iter", n>>}
        ELSE {<<"crashed", NoHandler>>, <<"pop", NoHandler>>}
             \cup {<<"iter", y>> : y \in {x \in live : EventHandlerComparer(it, x)}}

\* the part every callback invocation shares
Invoke(reg) ==
    /\ pc = "iter"
    /\ \E a \in ArgSeen : called' = Append(called, [handler |-> it, arg |-> a])
    /\ \E n \in Advance(reg) : pc' = n[1] /\ it' = n[2]
    /\ UNCHANGED <<event, drainLog, dispatchCount, handlersAtCall, queuedAtCall,
                   builtFrom, hashCall, payloads, runs>>

\* a callback that does not call the manager
InvokeNop ==
    /\ Invoke(m_handlers)
    /\ lastOp' = Op("Invoke", event.type, it, NoEvent, FALSE)
    /\ UNCHANGED <<m_handlers, m_eventQueue, refStale, nextId, regOps, owed,
                   pushedInDrain, editedInDrain, editedInDispatch, nameArg>>

\* a callback that calls PushEvent
InvokePush(type, priority) ==
    /\ Invoke(m_handlers)
    /\ nextId <= MaxEvents
    /\ LET e == [id |-> nextId, type |-> type, priority |-> priority]
       IN  /\ m_eventQueue' = QueuePush(m_eventQueue, e)
           /\ lastOp' = Op("PushEvent", type, NoHandler, e, FALSE)
    /\ nextId' = nextId + 1
    /\ refStale' = TRUE
    /\ pushedInDrain' = TRUE
    /\ UNCHANGED <<m_handlers, regOps, owed, editedInDrain, editedInDispatch, nameArg>>

\* a callback that calls AddHandler
InvokeAdd(eventHash, handler) ==
    /\ regOps < MaxRegOps
    /\ LET reg == DoAddHandler(m_handlers, eventHash, handler)
       IN  /\ Invoke(reg)
           /\ m_handlers' = reg
    /\ regOps' = regOps + 1
    /\ lastOp' = Op("AddHandler", eventHash, handler, NoEvent,
                    Found(m_handlers, eventHash, handler))
    /\ owed' = OweAdd(eventHash, handler)
    /\ editedInDrain' = TRUE
    /\ editedInDispatch' = TRUE
    /\ nameArg' = NoName
    /\ UNCHANGED <<m_eventQueue, refStale, nextId, pushedInDrain>>

\* a callback that calls RemoveHandler
InvokeRemove(eventHash, handler) ==
    /\ regOps < MaxRegOps
    /\ LET reg == DoRemoveHandler(m_handlers, eventHash, handler)
       IN  /\ Invoke(reg)
           /\ m_handlers' = reg
    /\ regOps' = regOps + 1
    /\ lastOp' = Op("RemoveHandler", eventHash, handler, NoEvent,
                    Found(m_handlers, eventHash, handler))
    /\ owed' = OweRemove(eventHash, handler)
    /\ editedInDrain' = TRUE
    /\ editedInDispatch' = TRUE
    /\ nameArg' = NoName
    /\ UNCHANGED <<m_eventQueue, refStale, nextId, pushedInDrain>>

\* mutant: the dispatch consumes the handlers it ran
PopEvent_Consume ==
    /\ pc = "pop"
    /\ m_eventQueue' \in QueuePop(m_eventQueue)
    /\ pc' = "loop"
    /\ lastOp' = Op("pop", event.type, NoHandler, m_eventQueue.top, FALSE)
    /\ event' = NoEvent
    /\ refStale' = FALSE
    /\ it' = NoHandler
    /\ called' = <<>>
    /\ editedInDispatch' = FALSE
    /\ m_handlers' = IF event.type \in DOMAIN m_handlers
                     THEN [m_handlers EXCEPT ![event.type] = {}]
                     ELSE m_handlers
    /\ NoRegistryCall
    /\ UNCHANGED <<nextId, regOps, owed, drainLog, dispatchCount,
                   handlersAtCall, pushedInDrain, editedInDrain, queuedAtCall>>

\* m_eventQueue.pop() removes whatever is at the front now (lastOp.ev); the
\* loop body's scope ends, and with it `event` and the iterator
PopEvent ==
    /\ pc = "pop"
    /\ m_eventQueue' \in QueuePop(m_eventQueue)
    /\ pc' = "loop"
    /\ lastOp' = Op("pop", event.type, NoHandler, m_eventQueue.top, FALSE)
    /\ event' = NoEvent
    /\ refStale' = FALSE
    /\ it' = NoHandler
    /\ called' = <<>>
    /\ editedInDispatch' = FALSE
    /\ NoRegistryCall
    /\ UNCHANGED <<m_handlers, nextId, regOps, owed, drainLog, dispatchCount,
                   handlersAtCall, pushedInDrain, editedInDrain, queuedAtCall>>

Next ==
    \/ \E k \in Keys, h \in EventHandler : AddHandler(k, h)
    \/ \E k \in Keys, h \in EventHandler : RemoveHandler(k, h)
    \/ \E k \in Keys, p \in EventPriorities : PushEvent(k, p)
    \/ ProcessEvents
    \/ Return
    \/ BeginDispatch
    \/ InvokeNop
    \/ \E k \in Keys, p \in EventPriorities : InvokePush(k, p)
    \/ \E k \in Keys, h \in EventHandler : InvokeAdd(k, h)
    \/ \E k \in Keys, h \in EventHandler : InvokeRemove(k, h)
    \/ PopEvent

Spec == Init /\ [][Next]_vars

\* the variables of the EventManager and its drain
managerVars ==
    <<m_handlers, m_eventQueue, pc, event, refStale, it, nextId, regOps,
      lastOp, owed, called, drainLog, dispatchCount, handlersAtCall,
      pushedInDrain, editedInDrain, editedInDispatch, queuedAtCall,
      nameArg, builtFrom>>

\* ------------------------------------------ event names (string overloads)
\* the seed Event::EventType::HashEventString passes to Murmur3Hash
kDefaultSeed == 0

\* a uint32_t used as a key of m_handlers: the integer its two's-complement
\* reading gives (one-to-one)
KeyOf(w) ==
    IF w[1] >= 32768 THEN (w[1] - 65536) * 65536 + w[2] ELSE w[1] * 65536 + w[2]

\* Event::EventType::HashEventString(const char*)
HashEventString(name) == KeyOf(Murmur3Hash(name, Len(name), uint32(kDefaultSeed)))

\* the event names used, as byte sequences: "aavjr" and "abrul" hash to the
\* same key with seed 0, "moved" to another
Name_aavjr == <<97, 97, 118, 106, 114>>
Name_abrul == <<97, 98, 114, 117, 108>>
Name_moved == <<109, 111, 118, 101, 100>>
Names == {Name_aavjr, Name_abrul, Name_moved}

\* HashEventString of every name, evaluated once
HashedNames == [name \in Names |-> HashEventString(name)]

\* the same with another seed
HashedNames_OtherSeed ==
    [name \in Names |-> KeyOf(Murmur3Hash(name, Len(name), uint32(kDefaultSeed + 1)))]

\* a call of a string overload: the name passed is recorded, no event is built
NameForm(eventTypeString) ==
    /\ nameArg' = eventTypeString
    /\ UNCHANGED <<builtFrom, hashCall, payloads, runs>>

\* mutant: the name is hashed with another seed than events' names are
AddHandlerString_OtherSeed(eventTypeString, handler) ==
    /\ AddHandlerBody(HashedNames_OtherSeed[eventTypeString], handler)
    /\ NameForm(eventTypeString)

\* void AddHandler(const char* eventTypeString, const EventHandler& handler)
AddHandlerString(eventTypeString, handler) ==
    /\ AddHandlerBody(HashedNames[eventTypeString], handler)
    /\ NameForm(eventTypeString)

\* void RemoveHandler(const char* eventTypeString, const EventHandler& handler)
RemoveHandlerString(eventTypeString, handler) ==
    /\ RemoveHandlerBody(HashedNames[eventTypeString], handler)
    /\ NameForm(eventTypeString)

\* Event::EventType(name, priority): the key is the hash of the name
EventType(name, priority) == [type |-> HashedNames[name], priority |-> priority]

\* PushEvent(Event(Event::EventType(name, priority)))
PushNamedEvent(name, priority) ==
    /\ PushEventBody(EventType(name, priority).type, EventType(name, priority).priority)
    /\ builtFrom' = [builtFrom EXCEPT ![nextId] = name]
    /\ UNCHANGED <<nameArg, hashCall, payloads, runs>>

NextNames ==
    \/ \E n \in Names, h \in EventHandler : AddHandlerString(n, h)
    \/ \E n \in Names, h \in EventHandler : RemoveHandlerString(n, h)
    \/ \E n \in Names, p \in EventPriorities : PushNamedEvent(n, p)
    \/ ProcessEvents
    \/ Return
    \/ BeginDispatch
    \/ InvokeNop
    \/ PopEvent

SpecNames == Init /\ [][NextNames]_vars

\* ----------------------------------------- a handler that always re-pushes
\* The callback that, whenever it is invoked, pushes a new event with the
\* key of the event it handles; the other callbacks do not call the manager.
Flooder == "lambda"

\* an instance name no event in the queue bears (names of events that have
\* left the queue are used again)
FreeId(q) == CHOOSE i \in EventIds : \A x \in QueueElems(q) : x.id # i

\* AddHandler from outside; at most one handler under a key has the
\* re-pushing callback
AddHandlerFlood(eventHash, handler) ==
    /\ handler.second = Flooder =>
           \A x \in HandlersOf(m_handlers, eventHash) : x.second # Flooder
    /\ AddHandler(eventHash, handler)

\* PushEvent from outside; one instance name is left for the re-pushed event
PushEventFlood(type, priority) ==
    /\ nextId < MaxEvents
    /\ PushEvent(type, priority)

\* a callback other than the re-pushing one is invoked
InvokeQuiet ==
    /\ it.second # Flooder
    /\ InvokeNop

\* the re-pushing callback is invoked: PushEvent(Event(EventType(key of the
\* event handled, priority)))
InvokeRepush(priority) ==
    /\ it.second = Flooder
    /\ Invoke(m_handlers)
    /\ LET e == [id |-> FreeId(m_eventQueue), type |-> event.type, priority |-> priority]
       IN  /\ m_eventQueue' = QueuePush(m_eventQueue, e)
           /\ lastOp' = Op("PushEvent", e.type, NoHandler, e, FALSE)
    /\ refStale' = TRUE
    /\ pushedInDrain' = TRUE
    /\ UNCHANGED <<m_handlers, nextId, regOps, owed, editedInDrain, editedInDispatch,
                   nameArg>>

\* the steps of a running ProcessEvents call
DrainStep ==
    \/ Return
    \/ BeginDispatch
    \/ InvokeQuiet
    \/ \E p \in EventPriorities : InvokeRepush(p)
    \/ PopEvent

NextFlood ==
    \/ \E k \in Keys, h \in EventHandler : AddHandlerFlood(k, h)
    \/ \E k \in Keys, p \in EventPriorities : PushEventFlood(k, p)
    \/ ProcessEvents
    \/ Return
    \/ BeginDispatch
    \/ InvokeQuiet
    \/ \E p \in EventPriorities : InvokeRepush(p)
    \/ PopEvent

\* ProcessEvents is one synchronous call: once entered, its next step is
\* always taken
SpecFlood == Init /\ [][NextFlood]_vars /\ WF_vars(DrainStep)

\* ------------------------------------- two runs of ProcessEvents compared
MaxHandlersPerKey == 2     \* handlers registered under one key in these runs

\* What a callback does every time it is invoked: nothing to the manager, or
\* RemoveHandler(key, handler).
Quiet == [op |-> "none", key |-> 0, handler |-> NoHandler]
Behaviours == {Quiet} \cup [op : {"RemoveHandler"}, key : Keys, handler : EventHandler]

\* the free functions are quiet, the lambda does any one thing
Scripts ==
    {does \in [Callbacks -> Behaviours] :
        \A f \in Callbacks : target_type(f) = target_type("OnPlayerDied") => does[f] = Quiet}

\* the registries AddHandler can build: no two equivalent handlers in a set
Registries ==
    {reg \in [Keys -> SUBSET EventHandler] :
        \A k \in Keys :
            /\ Cardinality(reg[k]) <= MaxHandlersPerKey
            /\ \A x, y \in reg[k] : Equivalent(x, y) => x = y}

\* the events pushed before the call, in push order
EventSeqs ==
    {s \in UNION {[1..n -> Event] : n \in 0..MaxEvents} : \A i \in DOMAIN s : s[i].id = i}

\* m_eventQueue after PushEvent(events[1]), ..., PushEvent(events[n])
RECURSIVE QueueOf(_)
QueueOf(events) ==
    IF events = <<>> THEN EmptyQueue
    ELSE QueuePush(QueueOf(SubSeq(events, 1, Len(events) - 1)), events[Len(events)])

\* handler.second(event): the registry as the callback leaves it
CallbackDoes(reg, b) ==
    IF b.op = "RemoveHandler" THEN DoRemoveHandler(reg, b.key, b.handler) ELSE reg

\* for (const auto& handler : handlers) handler.second(event), from the
\* iterator at h on: the registry left, the handlers invoked in order, and
\* whether the loop stayed defined (a callback that erases the node the
\* iterator is at makes the increment undefined; what follows is left open).
RECURSIVE RangeFor(_, _, _, _)
RangeFor(reg, key, h, does) ==
    IF h = NoHandler THEN [reg |-> reg, invoked |-> <<>>, defined |-> TRUE]
    ELSE LET after == CallbackDoes(reg, does[h.second])
             live == HandlersOf(after, key)
         IN  IF h \notin live
             THEN [reg |-> after, invoked |-> <<h>>, defined |-> FALSE]
             ELSE LET rest == RangeFor(after, key, SetNext(live, h), does)
                  IN  [reg |-> rest.reg, invoked |-> <<h>> \o rest.invoked,
                       defined |-> rest.defined]

\* mutant: only the handlers whose priority does not exceed the event's run
Dispatch_UpToEventPriority(reg, e, does) ==
    RangeFor(reg, e.type,
             SetBegin({h \in HandlersOf(reg, e.type) : h.first <= e.priority}), does)

\* one pass of the while body before pop(): find(event.GetType()) and the
\* range-for from begin()
Dispatch(reg, e, does) ==
    RangeFor(reg, e.type, SetBegin(HandlersOf(reg, e.type)), does)

\* while (!m_eventQueue.empty()) { ... pop(); }: every way the call can run,
\* each as the sequence of dispatches made (event and handlers invoked)
RECURSIVE WhileLoop(_, _, _)
WhileLoop(reg, q, does) ==
    IF QueueEmpty(q) THEN {[log |-> <<>>, defined |-> TRUE]}
    ELSE LET d == Dispatch(reg, q.top, does)
             entry == [event |-> q.top, invoked |-> d.invoked]
         IN  IF ~d.defined THEN {[log |-> <<entry>>, defined |-> FALSE]}
             ELSE UNION {{[log |-> <<entry>> \o r.log, defined |-> r.defined] :
                              r \in WhileLoop(d.reg, popped, does)} :
                         popped \in QueuePop(q)}

\* The one thing the second run differs in: the priority of the event with
\* the given id, or the priority of a handler of reg[key] (the new priority
\* is free in that set).
Changes(reg, events) ==
    {c \in [what : {"event"}, id : DOMAIN events, key : {0}, handler : {NoHandler},
            priority : EventPriorities] : c.priority # events[c.id].priority}
    \cup
    {c \in [what : {"handler"}, id : {0}, key : Keys, handler : EventHandler,
            priority : HandlerPriorities] :
        /\ c.handler \in reg[c.key]
        /\ \A x \in reg[c.key] : ~Equivalent(x, [c.handler EXCEPT !.first = c.priority])}

ChangedEvents(events, c) ==
    IF c.what = "event" THEN [events EXCEPT ![c.id].priority = c.priority] ELSE events

ChangedRegistry(reg, c) ==
    IF c.what = "handler"
    THEN [reg EXCEPT ![c.key] = (@ \ {c.handler}) \cup {[c.handler EXCEPT !.first = c.priority]}]
    ELSE reg

\* two managers are set up alike but for one priority; ProcessEvents is
\* about to be called on each
InitRuns ==
    /\ ManagerInit
    /\ hashCall = NoHashCall
    /\ payloads = NoPayloads
    /\ \E reg \in Registries, events \in EventSeqs, does \in Scripts :
           \E c \in Changes(reg, events) :
               runs = [pending |-> TRUE, compared |-> FALSE, reg |-> reg, events |-> events,
                       does |-> does, change |-> c, first |-> {}, second |-> {}]

\* both calls run to their end
RunBoth ==
    /\ runs.pending
    /\ runs' = [runs EXCEPT
                    !.pending = FALSE,
                    !.compared = TRUE,
                    !.first = WhileLoop(runs.reg, QueueOf(runs.events), runs.does),
                    !.second = WhileLoop(ChangedRegistry(runs.reg, runs.change),
                                         QueueOf(ChangedEvents(runs.events, runs.change)),
                                         runs.does)]
    /\ UNCHANGED <<managerVars, hashCall, payloads>>

NextRuns == RunBoth

SpecRuns == InitRuns /\ [][NextRuns]_vars

\* ----------------------------------------- payload components of an Event
MaxComponentCalls == 4     \* AddComponent/GetComponent calls on the event

\* concrete payload types (classes derived from PayloadComponent)
PayloadTypes == {"PayloadTest", "PayloadCollision", "PayloadDamage"}

\* the component of type T attached to the event, as a set (empty if none)
Attached(T) == {c \in payloads.components : c.type = T}

\* mutant: a component is constructed and attached without looking for one
AddComponent_Unchecked(T) ==
    /\ Len(payloads.log) < MaxComponentCalls
    /\ payloads' = [payloads EXCEPT
                        !.components = @ \cup {[type |-> T, instance |-> Len(payloads.log) + 1]},
                        !.log = Append(@, [call |-> "AddComponent", type |-> T]),
                        !.added = TRUE]
    /\ UNCHANGED <<managerVars, hashCall, runs>>

\* bool AddComponent<T>(): false and no change if a T is attached, else a T
\* is constructed (named by the number of the call) and attached
AddComponent(T) ==
    /\ Len(payloads.log) < MaxComponentCalls
    /\ payloads' =
           IF Attached(T) # {}
           THEN [payloads EXCEPT
                    !.log = Append(@, [call |-> "AddComponent", type |-> T]),
                    !.added = FALSE]
           ELSE [payloads EXCEPT
                    !.components = @ \cup {[type |-> T, instance |-> Len(payloads.log) + 1]},
                    !.log = Append(@, [call |-> "AddComponent", type |-> T]),
                    !.added = TRUE]
    /\ UNCHANGED <<managerVars, hashCall, runs>>

\* T* GetComponent<T>(): the attached instance, 0 (absent) if there is none
GetComponent(T) ==
    /\ Len(payloads.log) < MaxComponentCalls
    /\ payloads' = [payloads EXCEPT
                        !.log = Append(@, [call |-> "GetComponent", type |-> T]),
                        !.got = IF Attached(T) = {} THEN 0
                                ELSE (CHOOSE c \in Attached(T) : TRUE).instance]
    /\ UNCHANGED <<managerVars, hashCall, runs>>

NextPayload ==
    \/ \E T \in PayloadTypes : AddComponent(T)
    \/ \E T \in PayloadTypes : GetComponent(T)

SpecPayload == Init /\ [][NextPayload]_vars

\* ------------------------------------------------- calls of Murmur3Hash
MaxLen == 8        \* longest key: two blocks

\* the uint8_t values the keys are made of
Bytes == {0, 97, 255}
ByteSeqs == UNION {[1..n -> Bytes] : n \in 0..MaxLen}

\* the seeds passed: 0, 1, 0x9747b28c, 0xffffffff
Seeds == {uint32(0), uint32(1), <<\H9747, \Hb28c>>, <<\Hffff, \Hffff>>}

\* a caller is about to call Murmur3Hash(key, len, seed), len the length of key
InitHash ==
    /\ ManagerInit
    /\ payloads = NoPayloads
    /\ runs = NoRuns
    /\ hashCall \in [key : ByteSeqs, seed : Seeds, pending : {TRUE}, ret : {uint32(0)}]

\* the call runs and returns; it reads its arguments and writes nothing else
CallMurmur3Hash ==
    /\ hashCall.pending
    /\ hashCall' = [hashCall EXCEPT
                        !.pending = FALSE,
                        !.ret = Murmur3Hash(hashCall.key, Len(hashCall.key), hashCall.seed)]
    /\ UNCHANGED <<managerVars, payloads, runs>>

NextHash == CallMurmur3Hash

SpecHash == InitHash /\ [][NextHash]_vars

\* ================================================================ claims
\* the handlers invoked in the current dispatch, in invocation order
CalledHandlers == [i \in 1..Len(called) |-> called[i].handler]

\* the current dispatch has run its handler loop to the end and no callback
\* of it called AddHandler or RemoveHandler
DispatchDone == pc = "pop" /\ ~editedInDispatch

\* C1: when a dispatch of an event with key K ends and no handler edited the
\* registry during it, every handler registered under K was invoked exactly
\* once, and the invocations ran in non-increasing handler priority.
C1_HandlersByPriority ==
    DispatchDone =>
        LET H == HandlersOf(m_handlers, event.type)
        IN  /\ \A h \in H : Cardinality({i \in 1..Len(called) : called[i].handler = h}) = 1
            /\ \A i \in 1..Len(called) : called[i].handler \in H
            /\ \A i, j \in 1..Len(called) :
                   i < j => called[i].handler.first >= called[j].handler.first

\* a dispatch that ran three handlers of two different priorities
C1_Witness ==
    /\ DispatchDone
    /\ Len(called) = 3
    /\ called[1].handler.first > called[3].handler.first

\* C2: the event a dispatch starts with has the highest priority of all
\* events in the queue at that moment; and if no callback pushes during a
\* drain, the drain dispatches in non-increasing event priority.
C2_HighestPriorityFirst ==
    /\ lastOp.op = "BeginDispatch" =>
           \A x \in QueueElems(m_eventQueue) : x.priority <= lastOp.ev.priority
    /\ ~pushedInDrain =>
           \A i, j \in 1..Len(drainLog) :
               i < j => drainLog[i].priority >= drainLog[j].priority

\* a drain without callback pushes that dispatched the event pushed last
\* (higher priority) before the event pushed first
C2_Witness ==
    /\ lastOp.op = "Return"
    /\ ~pushedInDrain
    /\ Len(drainLog) = 2
    /\ drainLog[1].id > drainLog[2].id
    /\ drainLog[1].priority > drainLog[2].priority

\* C3: no event instance is dispatched twice, and an event that has been
\* dispatched and popped is never in the queue again.
C3_NoEventDispatchedTwice ==
    /\ \A i \in EventIds : dispatchCount[i] <= 1
    /\ lastOp.op = "pop" =>
           \A x \in QueueElems(m_eventQueue) : dispatchCount[x.id] = 0

\* C4: no event leaves the queue without having been dispatched, so when
\* ProcessEvents returns every event pushed so far (by callbacks too) has
\* been dispatched.
C4_PushedEventsDispatched ==
    /\ lastOp.op = "pop" => dispatchCount[lastOp.ev.id] >= 1
    /\ lastOp.op = "Return" => \A i \in 1..(nextId - 1) : dispatchCount[i] >= 1

\* C5: whenever ProcessEvents returns, the queue is empty.
C5_QueueEmptyOnReturn ==
    lastOp.op = "Return" => QueueElems(m_eventQueue) = {}

\* a return from a drain in which a callback pushed an event
C5_Witness ==
    /\ lastOp.op = "Return"
    /\ pushedInDrain
    /\ Len(drainLog) >= 2

\* C6: a handler added with AddHandler(key, h) and not removed since is
\* invoked in every dispatch of an event with that key (in which no callback
\* edits the registry).
C6_AddedHandlerInvoked ==
    DispatchDone =>
        \A w \in owed :
            w[1] = event.type => \E i \in 1..Len(called) : called[i].handler = w[2]

\* C7: AddHandler(key, h) with an equivalent handler (same priority, same
\* tiebreak identity) already registered under key leaves the registry
\* unchanged, and no dispatch invokes a handler twice.
C7_AddHandlerIdempotent ==
    /\ [][(lastOp'.op = "AddHandler"
             /\ Found(m_handlers, lastOp'.key, lastOp'.handler))
          => m_handlers' = m_handlers]_vars
    /\ [](pc = "pop" =>
             \A i, j \in 1..Len(called) :
                 called[i].handler = called[j].handler => i = j)

\* the same handler was added a second time and stands registered
C7_Witness ==
    /\ lastOp.op = "AddHandler"
    /\ lastOp.found
    /\ lastOp.handler \in HandlersOf(m_handlers, lastOp.key)

\* C8: RemoveHandler(key, h) with no handler of h's priority and identity
\* under key changes neither the registry nor the queue and raises no fault.
C8_RemoveUnmatchedNoOp ==
    [][(lastOp'.op = "RemoveHandler"
          /\ ~Found(m_handlers, lastOp'.key, lastOp'.handler))
       => /\ m_handlers' = m_handlers
          /\ m_eventQueue' = m_eventQueue
          /\ pc' # "crashed"]_vars

\* RemoveHandler was called with the callable of a registered handler but
\* another priority, and that handler is still registered
C8_Witness ==
    /\ lastOp.op = "RemoveHandler"
    /\ ~lastOp.found
    /\ \E x \in HandlersOf(m_handlers, lastOp.key) :
           x.second = lastOp.handler.second /\ x.first # lastOp.handler.first

\* a comes before b in the iteration order of S
Before(S, a, b) ==
    \E i, j \in 1..Len(SetSeq(S)) : i < j /\ SetSeq(S)[i] = a /\ SetSeq(S)[j] = b

\* C9: RemoveHandler(key, h) with a matching handler x registered removes x
\* and nothing else: the other handlers under key stay, in the same relative
\* order, and the other keys keep their sets; and a dispatch only ever
\* invokes handlers that are registered when it invokes them.
C9_RemoveExactlyOne ==
    /\ [][(lastOp'.op = "RemoveHandler"
             /\ Found(m_handlers, lastOp'.key, lastOp'.handler))
          => LET k == lastOp'.key
                 old == HandlersOf(m_handlers, k)
                 x == CHOOSE y \in old : Equivalent(y, lastOp'.handler)
             IN  /\ DOMAIN m_handlers' = DOMAIN m_handlers
                 /\ m_handlers'[k] = old \ {x}
                 /\ \A j \in DOMAIN m_handlers : j # k => m_handlers'[j] = m_handlers[j]
                 /\ \A a, b \in old \ {x} :
                        Before(old, a, b) <=> Before(m_handlers'[k], a, b)]_vars
    /\ [][Len(called') > Len(called)
          => called'[Len(called')].handler \in HandlersOf(m_handlers, event.type)]_vars

\* a matching handler was removed while another handler stays under the key
C9_Witness ==
    /\ lastOp.op = "RemoveHandler"
    /\ lastOp.found
    /\ HandlersOf(m_handlers, lastOp.key) # {}
    /\ ~Found(m_handlers, lastOp.key, lastOp.handler)

\* C10: if no callback called AddHandler or RemoveHandler during a
\* ProcessEvents call, the registry at its return is the registry at the call.
C10_HandlersNotConsumed ==
    (lastOp.op = "Return" /\ ~editedInDrain) => m_handlers = handlersAtCall

\* a drain returned that dispatched two events of one key to registered
\* handlers, none of which edited the registry
C10_Witness ==
    /\ lastOp.op = "Return"
    /\ ~editedInDrain
    /\ Len(drainLog) = 2
    /\ drainLog[1].type = drainLog[2].type
    /\ HandlersOf(m_handlers, drainLog[1].type) # {}

\* C16: registry edits made by a callback do not change which handlers run
\* in the dispatch it is part of.  Stated for the first dispatch of a
\* ProcessEvents call, where the registry at the start of the dispatch is
\* the registry at the call: when the handler loop has ended, the handlers
\* invoked are those registered under the event's key at the start of the
\* dispatch, each once, in registry order.  Dispatches in which a callback
\* erased a handler that had been invoked (among them the node the iterator
\* stood at, which is undefined behaviour) are left out: the statement
\* fails on edits whose behaviour is defined.
C16_DispatchUsesSnapshot ==
    (/\ pc = "pop"
     /\ Len(drainLog) = 1
     /\ \A i \in 1..Len(called) : called[i].handler \in HandlersOf(m_handlers, event.type))
    => CalledHandlers = SetSeq(HandlersOf(handlersAtCall, event.type))

\* C17: every handler invoked in the dispatch of an event receives that
\* event as its argument.
C17_HandlerReceivesEvent ==
    \A i \in 1..Len(called) : called[i].arg = event

\* C18: a ProcessEvents call always goes on to its return (it never ends in
\* a fault), and if no callback pushed during it, it returns after exactly
\* as many dispatches as events were queued when it was called.
C18_ReturnsAfterQueuedDispatches ==
    /\ pc # "crashed"
    /\ (lastOp.op = "Return" /\ ~pushedInDrain) => Len(drainLog) = queuedAtCall

\* C20: a PushEvent (from outside or from a callback) makes the queue one
\* longer and leaves the registry as it is; the pop that ends a loop
\* iteration makes the queue one shorter; no other step changes the queue,
\* in particular AddHandler and RemoveHandler do not.
C20_QueueLengthSteps ==
    [][LET before == Cardinality(QueueElems(m_eventQueue))
           after == Cardinality(QueueElems(m_eventQueue'))
       IN  /\ lastOp'.op = "PushEvent" =>
                  after = before + 1 /\ m_handlers' = m_handlers
           /\ lastOp'.op = "pop" => after = before - 1
           /\ lastOp'.op \notin {"PushEvent", "pop"} => m_eventQueue' = m_eventQueue]_vars

\* a callback pushed during a drain and the queue holds the event being
\* dispatched and the pushed one
C20_Witness ==
    /\ lastOp.op = "PushEvent"
    /\ pc \in {"iter", "pop"}
    /\ Cardinality(QueueElems(m_eventQueue)) = 2

\* ---- the Murmur3-32 algorithm as spec section 4.1 words it, on words kept
\* as four bytes <<b0, b1, b2, b3>>, the lowest first
RefWord(n) == <<n % 256, (n \div 256) % 256, (n \div 65536) % 256, 0>>

RefXor8(a, b) ==
    LET bit(i) == ((a \div (2^i)) + (b \div (2^i))) % 2
    IN  bit(0) + 2 * bit(1) + 4 * bit(2) + 8 * bit(3)
          + 16 * bit(4) + 32 * bit(5) + 64 * bit(6) + 128 * bit(7)

RefXor(a, b) == [i \in 1..4 |-> RefXor8(a[i], b[i])]

RefMul(a, b) ==
    LET s1 == a[1] * b[1]
        s2 == a[1] * b[2] + a[2] * b[1] + s1 \div 256
        s3 == a[1] * b[3] + a[2] * b[2] + a[3] * b[1] + s2 \div 256
        s4 == a[1] * b[4] + a[2] * b[3] + a[3] * b[2] + a[4] * b[1] + s3 \div 256
    IN  <<s1 % 256, s2 % 256, s3 % 256, s4 % 256>>

RefAdd(a, b) ==
    LET s1 == a[1] + b[1]
        s2 == a[2] + b[2] + s1 \div 256
        s3 == a[3] + b[3] + s2 \div 256
        s4 == a[4] + b[4] + s3 \div 256
    IN  <<s1 % 256, s2 % 256, s3 % 256, s4 % 256>>

\* rotate left by r bits: whole bytes first, then the bits within them
RefRotl(x, r) ==
    LET q == r \div 8
        sh == r % 8
        byte(i) == x[((i - q) % 4) + 1]
    IN  [i \in 1..4 |->
            ((byte(i - 1) * 2^sh) % 256) + (byte(i - 2) \div (2^(8 - sh)))]

\* shift right by n bits, zeros coming in at the top
RefShr(x, n) ==
    LET q == n \div 8
        sh == n % 8
        byte(i) == IF i + q > 3 THEN 0 ELSE x[i + q + 1]
    IN  [i \in 1..4 |->
            (byte(i - 1) \div (2^sh)) + ((byte(i) * 2^(8 - sh)) % 256)]

\* multiply by C1, rotate left 15, multiply by C2
RefMix(k) ==
    RefMul(RefRotl(RefMul(k, <<\H51, \H2d, \H9e, \Hcc>>), 15), <<\H93, \H35, \H87, \H1b>>)

\* h ^= h>>16; h *= k1; h ^= h>>13; h *= k2; h ^= h>>16
RefFinish(h) ==
    LET h1 == RefXor(h, RefShr(h, 16))
        h2 == RefMul(h1, <<\H6b, \Hca, \Heb, \H85>>)
        h3 == RefXor(h2, RefShr(h2, 13))
        h4 == RefMul(h3, <<\H35, \Hae, \Hb2, \Hc2>>)
    IN  RefXor(h4, RefShr(h4, 16))

\* steps 1 to 3 on the bytes not yet read, h the running hash, total the
\* length of the whole input
RECURSIVE RefFrom(_, _, _)
RefFrom(bytes, h, total) ==
    IF Len(bytes) >= 4
    THEN LET k == RefMix(SubSeq(bytes, 1, 4))
             h1 == RefRotl(RefXor(h, k), 13)
             h2 == RefAdd(RefMul(h1, RefWord(5)), <<\H64, \H6b, \H54, \He6>>)
         IN  RefFrom(SubSeq(bytes, 5, Len(bytes)), h2, total)
    ELSE LET partial == [i \in 1..4 |-> IF i <= Len(bytes) THEN bytes[i] ELSE 0]
             h1 == IF Len(bytes) = 0 THEN h ELSE RefXor(h, RefMix(partial))
         IN  RefFinish(RefXor(h1, RefWord(total)))

MurmurReference(bytes, seed) == RefFrom(bytes, seed, Len(bytes))

\* a uint32_t of the model as four bytes, the lowest first
BytesOf(w) == <<w[2] % 256, w[2] \div 256, w[1] % 256, w[1] \div 256>>

\* published Murmur3-32 (x86_32) test vectors
KnownVectors ==
    {[key |-> <<>>, seed |-> uint32(0), hash |-> uint32(0)],
     [key |-> <<>>, seed |-> uint32(1), hash |-> <<\H514e, \H28b7>>],
     [key |-> <<>>, seed |-> <<\Hffff, \Hffff>>, hash |-> <<\H81f1, \H6f39>>],
     [key |-> <<0>>, seed |-> uint32(0), hash |-> <<\H514e, \H28b7>>],
     [key |-> <<0, 0>>, seed |-> uint32(0), hash |-> <<\H30f4, \Hc306>>],
     [key |-> <<0, 0, 0>>, seed |-> uint32(0), hash |-> <<\H85f0, \Hb427>>],
     [key |-> <<0, 0, 0, 0>>, seed |-> uint32(0), hash |-> <<\H2362, \Hf9de>>],
     [key |-> <<255, 255, 255, 255>>, seed |-> uint32(0), hash |-> <<\H7629, \H3b50>>],
     [key |-> <<97>>, seed |-> <<\H9747, \Hb28c>>, hash |-> <<\H7fa0, \H9ea6>>],
     [key |-> <<97, 97>>, seed |-> <<\H9747, \Hb28c>>, hash |-> <<\H5d21, \H1726>>],
     [key |-> <<97, 97, 97>>, seed |-> <<\H9747, \Hb28c>>, hash |-> <<\H283e, \H0130>>],
     [key |-> <<97, 97, 97, 97>>, seed |-> <<\H9747, \Hb28c>>, hash |-> <<\H5a97, \H808a>>]}

\* C14: what Murmur3Hash(key, len, seed) returns is the Murmur3-32 value
\* of spec section 4.1 for key and seed, and is the published value wherever
\* one is known; the empty key with seed 0 gives 0.
C14_Murmur3MatchesReference ==
    ~hashCall.pending =>
        /\ BytesOf(hashCall.ret) = MurmurReference(hashCall.key, BytesOf(hashCall.seed))
        /\ \A v \in KnownVectors :
               (v.key = hashCall.key /\ v.seed = hashCall.seed) => hashCall.ret = v.hash
        /\ (hashCall.key = <<>> /\ hashCall.seed = uint32(0)) => hashCall.ret = uint32(0)

\* the call returned for a key of seven bytes (one block and three tail
\* bytes) with seed 0x9747b28c
C14_Witness ==
    /\ ~hashCall.pending
    /\ hashCall.key = <<97, 0, 255, 97, 97, 0, 255>>
    /\ hashCall.seed = <<\H9747, \Hb28c>>
    /\ hashCall.ret = <<\H9763, \H3eff>>

\* the key spec sections 4.1 and 4.2 give a name: its Murmur3-32 value with
\* the default seed
ReferenceKeys ==
    [name \in Names |->
        LET b == MurmurReference(name, RefWord(kDefaultSeed))
        IN  KeyOf(<<b[3] + 256 * b[4], b[1] + 256 * b[2]>>)]

\* C12: when the handler loop of a dispatch has ended, the handlers invoked
\* are exactly those in the set registered under the event's key, in that
\* set's order (so none that is registered under another key only); and for
\* every name whose key is the key of the name the event was built from,
\* another name included, the handlers registered under that name's key
\* were all invoked.
C12_DispatchByKeyOnly ==
    pc = "pop" =>
        /\ CalledHandlers =
               SetSeq(IF event.type \in DOMAIN m_handlers THEN m_handlers[event.type] ELSE {})
        /\ \A n \in Names :
               (builtFrom[event.id] \in Names
                  /\ ReferenceKeys[n] = ReferenceKeys[builtFrom[event.id]]
                  /\ ReferenceKeys[n] \in DOMAIN m_handlers)
               => \A h \in m_handlers[ReferenceKeys[n]] :
                      \E i \in 1..Len(called) : called[i].handler = h

\* the only registry call so far was AddHandler("aavjr", h); an event built
\* from "abrul" was dispatched and h was invoked for it, while handlers are
\* invoked for no event built from "moved"
C12_Witness ==
    /\ pc = "pop"
    /\ regOps = 1
    /\ nameArg = Name_aavjr
    /\ Len(called) = 1
    /\ owed = {<<ReferenceKeys[Name_aavjr], called[1].handler>>}
    /\ builtFrom[event.id] = Name_abrul
    /\ ReferenceKeys[Name_moved] \notin DOMAIN m_handlers

\* C13: AddHandler(name, h) and RemoveHandler(name, h) change the registry
\* exactly as the key forms do when given the default-seed hash of the name;
\* every event built from a name carries that same key whatever its
\* priority; so when a dispatch of an event built from a name ends, every
\* handler registered under the name's key was invoked.
C13_NameFormsAreKeyForms ==
    /\ [][(nameArg' \in Names /\ lastOp'.op = "AddHandler")
          => m_handlers' = DoAddHandler(m_handlers, ReferenceKeys[nameArg'], lastOp'.handler)]_vars
    /\ [][(nameArg' \in Names /\ lastOp'.op = "RemoveHandler")
          => m_handlers' = DoRemoveHandler(m_handlers, ReferenceKeys[nameArg'], lastOp'.handler)]_vars
    /\ [](\A e \in QueueElems(m_eventQueue) :
              builtFrom[e.id] \in Names => e.type = ReferenceKeys[builtFrom[e.id]])
    /\ []((pc = "pop" /\ builtFrom[event.id] \in Names) =>
              \A h \in HandlersOf(m_handlers, ReferenceKeys[builtFrom[event.id]]) :
                  \E i \in 1..Len(called) : called[i].handler = h)

\* a handler was registered by the name "moved", and two events built from
\* "moved" with different priorities were dispatched to it
C13_Witness ==
    /\ pc = "pop"
    /\ Len(drainLog) = 2
    /\ drainLog[1].id # drainLog[2].id
    /\ drainLog[1].priority # drainLog[2].priority
    /\ builtFrom[drainLog[1].id] = Name_moved
    /\ builtFrom[drainLog[2].id] = Name_moved
    /\ regOps = 1
    /\ nameArg = Name_moved
    /\ Len(called) = 1

\* the last component call made on the event
LastCall == payloads.log[Len(payloads.log)]

\* the numbers of the AddComponent<T> calls made so far
AddCalls(T) ==
    {j \in 1..Len(payloads.log) :
        payloads.log[j] = [call |-> "AddComponent", type |-> T]}

\* C15: AddComponent<T> returns true iff no T was attached and then attaches
\* exactly one T, otherwise it returns false and changes nothing; the event
\* never holds two components of one type; an attached component stays; and
\* GetComponent<T> returns the instance the first AddComponent<T> call
\* attached (absent if there was no such call).
C15_OneComponentPerType ==
    /\ [][(Len(payloads'.log) > Len(payloads.log)
             /\ payloads'.log[Len(payloads'.log)].call = "AddComponent")
          => LET T == payloads'.log[Len(payloads'.log)].type
                 had == \E c \in payloads.components : c.type = T
             IN  /\ payloads'.added = ~had
                 /\ had => payloads'.components = payloads.components
                 /\ ~had => /\ payloads.components \subseteq payloads'.components
                            /\ Cardinality(payloads'.components \ payloads.components) = 1
                            /\ \A c \in payloads'.components \ payloads.components :
                                   c.type = T]_vars
    /\ [](\A c, d \in payloads.components : c.type = d.type => c = d)
    /\ [][payloads.components \subseteq payloads'.components]_vars
    /\ []((Len(payloads.log) > 0 /\ LastCall.call = "GetComponent") =>
             IF AddCalls(LastCall.type) = {}
             THEN payloads.got = 0
             ELSE /\ payloads.got \in AddCalls(LastCall.type)
                  /\ \A j \in AddCalls(LastCall.type) : payloads.got <= j)

\* AddComponent<PayloadTest> returned true, a second AddComponent<PayloadTest>
\* returned false, and GetComponent<PayloadTest> returned the first instance
C15_Witness ==
    /\ Len(payloads.log) = 3
    /\ payloads.log[1] = [call |-> "AddComponent", type |-> "PayloadTest"]
    /\ payloads.log[2] = [call |-> "AddComponent", type |-> "PayloadTest"]
    /\ payloads.log[3] = [call |-> "GetComponent", type |-> "PayloadTest"]
    /\ ~payloads.added
    /\ payloads.got = 1

\* the re-pushing callback has been invoked in the ProcessEvents call that
\* is running
Flooding == pc # "idle" /\ pushedInDrain

\* C19: once the re-pushing handler has been invoked in a ProcessEvents
\* call, the queue is non-empty at every loop check, the call does not
\* return, and the handler is invoked again and again without end.
C19_FloodNeverReturns ==
    /\ []((Flooding /\ pc = "loop") => ~QueueEmpty(m_eventQueue))
    /\ [][Flooding => pc' # "idle"]_vars
    /\ [](Flooding => []<>(pc = "iter" /\ it.second = Flooder))
    /\ [](Flooding => []<>(lastOp.op = "PushEvent" /\ pc # "idle"))

\* the loop check is reached with the re-pushing handler invoked at least
\* MaxEvents + 1 times in this call
C19_Witness ==
    /\ Flooding
    /\ pc = "loop"
    /\ Len(drainLog) = MaxEvents + 1
    /\ \A i \in 1..Len(drainLog) : \E h \in HandlersOf(m_handlers, drainLog[i].type) :
           h.second = Flooder

\* the handlers a run invoked for the event with the given id, in order
InvokedFor(run, id) ==
    LET i == CHOOSE j \in 1..Len(run.log) : run.log[j].event.id = id
    IN  run.log[i].invoked

\* the events a run dispatched, in order
EventOrder(run) == [i \in 1..Len(run.log) |-> run.log[i].event.id]

\* both calls returned without an undefined step
BothDefined == runs.compared /\ \A r \in runs.first \cup runs.second : r.defined

\* the two halves of the independence, for the two runs at hand
SameHandlersForChangedEvent ==
    runs.change.what = "event" =>
        {InvokedFor(r, runs.change.id) : r \in runs.first}
            = {InvokedFor(r, runs.change.id) : r \in runs.second}

SameEventOrder ==
    runs.change.what = "handler" =>
        {EventOrder(r) : r \in runs.first} = {EventOrder(r) : r \in runs.second}

\* no callback removes a handler of a key it is itself registered under, so
\* no set is changed while the range-for runs over it
NoEditWhileIterated ==
    \A k \in Keys : \A h \in runs.reg[k] :
        runs.does[h.second].op = "RemoveHandler" => runs.does[h.second].key # k

====
